---- MODULE Spec2Model ----
(***************************************************************************)
(* The article store of h2news: news_crawler.job() merges a scraped batch  *)
(* into data/all.json, rewrites data/by_date/<date>.json and               *)
(* data/latest.json; make_weekly.main() derives data/weekly.json.          *)
(*                                                                         *)
(* Strings the code compares or parses (dates, titles, sources) are        *)
(* sequences of character codes, so that Python's string order, strptime   *)
(* and strftime are computed and not assumed.  Urls and tags are only      *)
(* tested for emptiness and equality and stay TLA+ strings.  A field that  *)
(* is absent from a record is the empty string / empty sequence: every     *)
(* read of these fields in the modelled code is .get(f), .get(f, "") or    *)
(* .get(f) or default, which do not tell the two apart.                    *)
(***************************************************************************)
EXTENDS Integers, Sequences, FiniteSets, TLC

(***************************************************************************)
(* Bounds of the model.                                                    *)
(***************************************************************************)
\* longest record list an initial all.json holds
MaxExisting == 1
\* longest batch one crawl returns
MaxBatch == 2
\* number of job() runs
MaxRuns == 2
\* number of days the clock advances
MaxTicks == 1

(***************************************************************************)
(* Strings as sequences of character codes.                                *)
(***************************************************************************)
Min(a, b) == IF a <= b THEN a ELSE b

Range(s) == { s[i] : i \in 1..Len(s) }

\* Python's < on str: the first differing character decides, a proper
\* prefix is smaller.
StrLess(a, b) ==
    \E i \in 1..(Min(Len(a), Len(b)) + 1) :
        /\ \A j \in 1..(i - 1) : a[j] = b[j]
        /\ \/ (i > Len(a) /\ i <= Len(b))
           \/ (i <= Len(a) /\ i <= Len(b) /\ a[i] < b[i])

IsDigit(c) == c >= 48 /\ c <= 57

IsSpace(c) == c \in {9, 10, 11, 12, 13, 32}

\* str.strip()
Strip(s) ==
    LET keep == { i \in 1..Len(s) : ~IsSpace(s[i]) }
    IN  IF keep = {} THEN << >>
        ELSE LET lo == CHOOSE i \in keep : \A j \in keep : i <= j
                 hi == CHOOSE i \in keep : \A j \in keep : j <= i
             IN  SubSeq(s, lo, hi)

\* value of a sequence of digit characters
RECURSIVE DigitsValue(_)
DigitsValue(s) ==
    IF s = << >> THEN 0
    ELSE 10 * DigitsValue(SubSeq(s, 1, Len(s) - 1)) + (s[Len(s)] - 48)

\* "%04d" / "%02d"
Pad4(n) == << 48 + (n \div 1000), 48 + ((n \div 100) % 10),
              48 + ((n \div 10) % 10), 48 + (n % 10) >>

Pad2(n) == << 48 + ((n \div 10) % 10), 48 + (n % 10) >>

(***************************************************************************)
(* The proleptic Gregorian calendar of datetime.date.                      *)
(***************************************************************************)
IsLeap(y) == (y % 4 = 0) /\ ((y % 100 # 0) \/ (y % 400 = 0))

DaysInMonth(y, m) ==
    IF m = 2 THEN (IF IsLeap(y) THEN 29 ELSE 28)
    ELSE IF m \in {4, 6, 9, 11} THEN 30 ELSE 31

DaysBeforeYear(y) ==
    (y - 1) * 365 + ((y - 1) \div 4) - ((y - 1) \div 100) + ((y - 1) \div 400)

\* days of the year before the first day of month m
DaysBeforeMonth(y, m) ==
    << 0, 31, 59, 90, 120, 151, 181, 212, 243, 273, 304, 334 >>[m]
    + (IF m > 2 /\ IsLeap(y) THEN 1 ELSE 0)

\* date(y, m, d).toordinal()
Ymd2Ord(y, m, d) == DaysBeforeYear(y) + DaysBeforeMonth(y, m) + d

\* date.fromordinal(n) as <<y, m, d>>
Ord2Ymd(n) ==
    LET y == CHOOSE yy \in ((n \div 366) + 1)..((n \div 365) + 1) :
                 DaysBeforeYear(yy) < n /\ n <= DaysBeforeYear(yy + 1)
        r == n - DaysBeforeYear(y)
        m == CHOOSE mm \in 1..12 :
                 DaysBeforeMonth(y, mm) < r
                 /\ r <= DaysBeforeMonth(y, mm) + DaysInMonth(y, mm)
    IN  << y, m, r - DaysBeforeMonth(y, m) >>

\* strftime("%Y-%m-%d") of the day with ordinal n
Strftime(n) ==
    LET ymd == Ord2Ymd(n)
    IN  Pad4(ymd[1]) \o <<45>> \o Pad2(ymd[2]) \o <<45>> \o Pad2(ymd[3])

\* month field of strptime: 1[0-2] | 0[1-9] | [1-9]
IsMonthField(p) ==
    /\ Len(p) \in {1, 2}
    /\ \A i \in 1..Len(p) : IsDigit(p[i])
    /\ DigitsValue(p) \in 1..12

\* day field of strptime: 3[01] | [12]\d | 0[1-9] | [1-9] | " "[1-9]
IsDayField(p) ==
    \/ /\ Len(p) \in {1, 2}
       /\ \A i \in 1..Len(p) : IsDigit(p[i])
       /\ DigitsValue(p) \in 1..31
    \/ /\ Len(p) = 2
       /\ p[1] = 32
       /\ IsDigit(p[2])
       /\ p[2] # 48

\* datetime.strptime(s, "%Y-%m-%d"): <<ordinal>>, or << >> for ValueError
Strptime(s) ==
    LET dashes == { i \in 1..Len(s) : s[i] = 45 }
    IN  IF Cardinality(dashes) # 2 THEN << >>
        ELSE LET d1 == CHOOSE i \in dashes : \A j \in dashes : i <= j
                 d2 == CHOOSE i \in dashes : \A j \in dashes : j <= i
                 py == SubSeq(s, 1, d1 - 1)
                 pm == SubSeq(s, d1 + 1, d2 - 1)
                 pd == SubSeq(s, d2 + 1, Len(s))
             IN  IF /\ Len(py) = 4
                    /\ \A i \in 1..4 : IsDigit(py[i])
                    /\ IsMonthField(pm)
                    /\ IsDayField(pd)
                 THEN LET y == DigitsValue(py)
                          m == DigitsValue(pm)
                          d == DigitsValue(Strip(pd))
                      IN  IF y >= 1 /\ d <= DaysInMonth(y, m)
                          THEN << Ymd2Ord(y, m, d) >>
                          ELSE << >>
                 ELSE << >>

\* A JSON null held by a field that otherwise holds a string (Python None):
\* a value no string equals.
Null == << -1 >>

\* make_weekly.parse_date_yyyy_mm_dd: <<ordinal>>, or << >> for None;
\* `if not s` sends the empty string and None to None
parse_date_yyyy_mm_dd(s) ==
    IF s = << >> \/ s = Null THEN << >> ELSE Strptime(Strip(s))

(***************************************************************************)
(* Article records.                                                        *)
(***************************************************************************)
Article(src, title, url, date, tags) ==
    [source |-> src, title |-> title, url |-> url, date |-> date,
     tags |-> tags, is_important |-> IF tags # << >> THEN 1 ELSE 0]

\* the source names crawl_list is called with, as code points
SrcEnergy == << 50640, 45320, 51648, 49888, 47928 >>
SrcGas == << 44032, 49828, 49888, 47928 >>
SrcElec == << 51204, 44592, 49888, 47928 >>

TitleOld == << 111, 108, 100 >>
TitleNew == << 110, 101, 119 >>

\* the day the clock starts at, 2025-01-01
StartDay == Ymd2Ord(2025, 1, 1)

\* Records a crawl can return: crawl_list gives every record a non-empty
\* url, title and date and at least one tag.
CrawlPool ==
    { Article(SrcEnergy, TitleOld, "u1", Strftime(StartDay), << "PPA" >>),
      Article(SrcEnergy, TitleNew, "u1", Strftime(StartDay + 2), << "PPA", "ESS" >>),
      Article(SrcEnergy, TitleNew, "u2", Strftime(StartDay + 2), << "ESS" >>),
      Article(SrcGas, TitleOld, "u3", Strftime(StartDay - 6), << "ESS" >>) }

\* "2025-1-2": the day after StartDay, month and day not zero-padded
DateUnpadded == << 50, 48, 50, 53, 45, 49, 45, 50 >>

\* Records only a hand-edited or older all.json holds: no url, no date, a
\* date that is not zero-padded, a null date.
MalformedPool ==
    { Article(SrcEnergy, TitleOld, "", Strftime(StartDay), << "PPA" >>),
      Article(SrcGas, TitleNew, "u3", << >>, << >>),
      Article(SrcElec, TitleOld, "u1", DateUnpadded, << "PPA" >>),
      Article(SrcGas, TitleOld, "u2", Null, << >>) }

SeqsUpTo(S, n) == UNION { [1..k -> S] : k \in 0..n }

\* the batches a crawl returns, and the record lists all.json starts with
Batches == SeqsUpTo(CrawlPool, MaxBatch)

StoredLists == SeqsUpTo(CrawlPool \cup MalformedPool, MaxExisting)

(***************************************************************************)
(* news_crawler: the store functions.                                      *)
(***************************************************************************)
File(kind, items) == [kind |-> kind, items |-> items]

\* mutant of load_all_existing: the stored records are not read
LoadAlwaysEmpty(f) == [type |-> "list", items |-> << >>]

\* What json.loads(read_text()) gives for each content of all.json: a
\* missing file ("missing") and text that is no JSON ("corrupt") give [], a
\* JSON array ("list") gives the list, any other JSON value (here "object",
\* an object with at least one key) is returned as it is.
load_all_existing(f) ==
    IF f.kind \in {"missing", "corrupt"} THEN [type |-> "list", items |-> << >>]
    ELSE [type |-> f.kind, items |-> f.items]

\* mutant of DictPut: the dict is keyed by the title
DictPutByTitle(d, it) ==
    IF \E i \in 1..Len(d) : d[i].title = it.title
    THEN [ i \in 1..Len(d) |-> IF d[i].title = it.title THEN it ELSE d[i] ]
    ELSE Append(d, it)

\* d[u] = it on a dict kept as a list in insertion order: a new key is
\* appended, an existing key keeps its place and takes the new value
DictPut(d, it) ==
    IF \E i \in 1..Len(d) : d[i].url = it.url
    THEN [ i \in 1..Len(d) |-> IF d[i].url = it.url THEN it ELSE d[i] ]
    ELSE Append(d, it)

\* mutant of dedup_by_url: d.setdefault(u, it), the first record wins
RECURSIVE DedupFirstWins(_)
DedupFirstWins(items) ==
    IF items = << >> THEN << >>
    ELSE LET d == DedupFirstWins(SubSeq(items, 1, Len(items) - 1))
             it == items[Len(items)]
         IN  IF it.url # "" /\ ~(\E i \in 1..Len(d) : d[i].url = it.url)
             THEN Append(d, it) ELSE d

\* mutant of dedup_by_url: no `if u` guard, records without url are stored
RECURSIVE DedupNoUrlGuard(_)
DedupNoUrlGuard(items) ==
    IF items = << >> THEN << >>
    ELSE DictPut(DedupNoUrlGuard(SubSeq(items, 1, Len(items) - 1)),
                 items[Len(items)])

\* dedup_by_url: the values of a dict filled in list order, records
\* without url skipped
RECURSIVE dedup_by_url(_)
dedup_by_url(items) ==
    IF items = << >> THEN << >>
    ELSE LET d == dedup_by_url(SubSeq(items, 1, Len(items) - 1))
             it == items[Len(items)]
         IN  IF it.url # "" THEN DictPut(d, it) ELSE d

\* the sort key (date, is_important, source, title), compared as tuples
KeyLess(x, y) ==
    \/ StrLess(x.date, y.date)
    \/ /\ x.date = y.date
       /\ \/ x.is_important < y.is_important
          \/ /\ x.is_important = y.is_important
             /\ \/ StrLess(x.source, y.source)
                \/ /\ x.source = y.source
                   /\ StrLess(x.title, y.title)

\* sorted() raises TypeError when it compares a None date with a string
\* date.  The dates are the first component of the key, and a sort has to
\* compare some None-dated record with some string-dated one as soon as the
\* list holds both.
SortRaises(items) ==
    \E i, j \in 1..Len(items) : items[i].date = Null /\ items[j].date # Null

\* mutant of sort_articles: sorted(items, key=...)[::-1], which reverses
\* the records with equal keys
RECURSIVE SortReversingTies(_)
SortReversingTies(items) ==
    IF items = << >> THEN << >>
    ELSE LET prev == SortReversingTies(SubSeq(items, 1, Len(items) - 1))
             x == items[Len(items)]
             k == Cardinality({ i \in 1..Len(prev) : KeyLess(x, prev[i]) })
         IN  SubSeq(prev, 1, k) \o << x >> \o SubSeq(prev, k + 1, Len(prev))

\* sorted(items, key=..., reverse=True): descending, and stable (records
\* with equal keys keep their order)
RECURSIVE sort_articles(_)
sort_articles(items) ==
    IF items = << >> THEN << >>
    ELSE LET prev == sort_articles(SubSeq(items, 1, Len(items) - 1))
             x == items[Len(items)]
             k == Cardinality({ i \in 1..Len(prev) : ~KeyLess(prev[i], x) })
         IN  SubSeq(prev, 1, k) \o << x >> \o SubSeq(prev, k + 1, Len(prev))

Unknown == << 117, 110, 107, 110, 111, 119, 110 >>

\* it.get("date") or "unknown": a missing, empty or null date gives "unknown"
DateKey(it) == IF it.date # << >> /\ it.date # Null THEN it.date ELSE Unknown

\* mutant of write_by_date: bucket[d] = [it], a group keeps its last record
RECURSIVE WriteByDateLastOnly(_)
WriteByDateLastOnly(items) ==
    IF items = << >> THEN << >>
    ELSE LET bucket == WriteByDateLastOnly(SubSeq(items, 1, Len(items) - 1))
             it == items[Len(items)]
             d == DateKey(it)
         IN  IF d \in DOMAIN bucket
             THEN [bucket EXCEPT ![d] = << it >>]
             ELSE bucket @@ (d :> << it >>)

\* the bucket write_by_date builds and returns
RECURSIVE write_by_date(_)
write_by_date(items) ==
    IF items = << >> THEN << >>
    ELSE LET bucket == write_by_date(SubSeq(items, 1, Len(items) - 1))
             it == items[Len(items)]
             d == DateKey(it)
         IN  IF d \in DOMAIN bucket
             THEN [bucket EXCEPT ![d] = Append(@, it)]
             ELSE bucket @@ (d :> << it >>)

\* the files of data/by_date after write_by_date: one file written per
\* bucket key, every other file left as it was
ByDateFilesAfter(files, bucket) ==
    [ d \in (DOMAIN files) \cup (DOMAIN bucket) |->
        IF d \in DOMAIN bucket THEN sort_articles(bucket[d]) ELSE files[d] ]

\* the largest key in Python's string order
MaxKey(keys) == CHOOSE k \in keys : \A j \in keys : j = k \/ StrLess(j, k)

\* mutant of LatestItems: the group of the largest date key
LatestItemsOfMaxKey(by_date_map, today_str) ==
    IF DOMAIN by_date_map = {} THEN << >>
    ELSE sort_articles(by_date_map[MaxKey(DOMAIN by_date_map)])

\* sort_articles(by_date.get(today, []))
LatestItems(by_date_map, today_str) ==
    sort_articles(IF today_str \in DOMAIN by_date_map
                  THEN by_date_map[today_str] ELSE << >>)

(***************************************************************************)
(* make_weekly: the weekly rollup.                                         *)
(***************************************************************************)
TOP_ARTICLES_N == 8
TOP_KEYWORDS_N == 10

SOURCE_PRIORITY == << SrcEnergy, SrcGas, SrcElec >>

source_rank(src) ==
    IF \E i \in 1..Len(SOURCE_PRIORITY) : SOURCE_PRIORITY[i] = src
    THEN (CHOOSE i \in 1..Len(SOURCE_PRIORITY) : SOURCE_PRIORITY[i] = src) - 1
    ELSE 999

\* sorted(items, key=...): ascending in Less, and stable.  The place of
\* items[i] is after every record that is smaller and every record that is
\* equal and comes before it.
StableSort(items, Less(_, _)) ==
    LET Before(j, i) ==
            \/ Less(items[j], items[i])
            \/ (~Less(items[i], items[j]) /\ j < i)
        Place(i) == Cardinality({ j \in 1..Len(items) : Before(j, i) }) + 1
    IN  [ p \in 1..Len(items) |->
            items[CHOOSE i \in 1..Len(items) : Place(i) = p] ]

Take(s, n) == SubSeq(s, 1, Min(n, Len(s)))

\* Counter(keys) as its items() in insertion order: <<key, count>> pairs
RECURSIVE Counter(_)
Counter(keys) ==
    IF keys = << >> THEN << >>
    ELSE LET c == Counter(SubSeq(keys, 1, Len(keys) - 1))
             x == keys[Len(keys)]
         IN  IF \E i \in 1..Len(c) : c[i][1] = x
             THEN [ i \in 1..Len(c) |->
                      IF c[i][1] = x THEN << x, c[i][2] + 1 >> ELSE c[i] ]
             ELSE Append(c, << x, 1 >>)

\* counts.get(key, 0)
CounterGet(c, key) ==
    IF \E i \in 1..Len(c) : c[i][1] = key
    THEN c[CHOOSE i \in 1..Len(c) : c[i][1] = key][2]
    ELSE 0

RECURSIVE Flatten(_)
Flatten(ss) ==
    IF ss = << >> THEN << >>
    ELSE Flatten(SubSeq(ss, 1, Len(ss) - 1)) \o ss[Len(ss)]

MapSeq(s, F(_)) == [ i \in 1..Len(s) |-> F(s[i]) ]

\* compute_week_range(end_date): the 7 days ending with end_date
compute_week_range(end_ord) == << Strftime(end_ord - 6), Strftime(end_ord) >>

\* mutant of InRange: the last day of the range is left out
InRangeExclusiveEnd(a, d_from, d_to) ==
    LET d == parse_date_yyyy_mm_dd(a.date)
    IN  d # << >> /\ d_from[1] <= d[1] /\ d[1] < d_to[1]

\* the test of filter_items_by_range: the record's date parses and its
\* day is from d_from to d_to, both included
InRange(a, d_from, d_to) ==
    LET d == parse_date_yyyy_mm_dd(a.date)
    IN  d # << >> /\ d_from[1] <= d[1] /\ d[1] <= d_to[1]

filter_items_by_range(all_items, range_from, range_to) ==
    LET d_from == parse_date_yyyy_mm_dd(range_from)
        d_to == parse_date_yyyy_mm_dd(range_to)
    IN  IF d_from = << >> \/ d_to = << >> THEN << >>
        ELSE LET Keep(a) == InRange(a, d_from, d_to)
             IN  SelectSeq(all_items, Keep)

DateOf(a) == a.date
SourceOf(a) == a.source
TagsOf(a) == a.tags
\* the truth value of a string field: "" and None are false
NonEmpty(x) == x # << >> /\ x # Null

\* mutant of build_by_day: only the days that have articles
ByDaySkipEmpty(items, range_from, range_to) ==
    LET d_from == parse_date_yyyy_mm_dd(range_from)
        d_to == parse_date_yyyy_mm_dd(range_to)
    IN  IF d_from = << >> \/ d_to = << >> THEN << >>
        ELSE LET counts == Counter(SelectSeq(MapSeq(items, DateOf), NonEmpty))
                 all == [ i \in 1..(d_to[1] - d_from[1] + 1) |->
                           [date |-> Strftime(d_from[1] + i - 1),
                            count |-> CounterGet(counts, Strftime(d_from[1] + i - 1))] ]
                 Counted(e) == e.count > 0
             IN  SelectSeq(all, Counted)

\* build_by_day: one entry per day from range_from to range_to, the count
\* looked up under the day's formatted date
build_by_day(items, range_from, range_to) ==
    LET d_from == parse_date_yyyy_mm_dd(range_from)
        d_to == parse_date_yyyy_mm_dd(range_to)
    IN  IF d_from = << >> \/ d_to = << >> THEN << >>
        ELSE LET counts == Counter(SelectSeq(MapSeq(items, DateOf), NonEmpty))
             IN  [ i \in 1..(d_to[1] - d_from[1] + 1) |->
                     [date |-> Strftime(d_from[1] + i - 1),
                      count |-> CounterGet(counts, Strftime(d_from[1] + i - 1))] ]

SourceEntryLess(x, y) ==
    \/ x.count > y.count
    \/ /\ x.count = y.count
       /\ \/ source_rank(x.source) < source_rank(y.source)
          \/ /\ source_rank(x.source) = source_rank(y.source)
             /\ StrLess(x.source, y.source)

CountGreater(x, y) == x.count > y.count

\* the key of pick_top_articles: (-len(tags), source_rank, title)
TopArticleLess(x, y) ==
    \/ Len(x.tags) > Len(y.tags)
    \/ /\ Len(x.tags) = Len(y.tags)
       /\ \/ source_rank(x.source) < source_rank(y.source)
          \/ /\ source_rank(x.source) = source_rank(y.source)
             /\ StrLess(x.title, y.title)

pick_top_articles(items, n) == Take(StableSort(items, TopArticleLess), n)

\* max(by_day, key=count): the first entry with the largest count
PeakDay(days) ==
    days[CHOOSE i \in 1..Len(days) :
            /\ \A j \in 1..Len(days) : days[j].count <= days[i].count
            /\ \A j \in 1..(i - 1) : days[j].count < days[i].count]

\* mutant of one_liner: the `total <= 0` case is missing
OneLinerNoGuard(range_from, range_to, total, by_source, top_keywords, days) ==
    [text |-> "summary", from |-> << >>, to |-> << >>,
     top_kw |-> IF top_keywords # << >> THEN top_keywords[1].tag ELSE "",
     top_src |-> IF by_source # << >> THEN << by_source[1] >> ELSE << >>,
     peak |-> IF days # << >> THEN << PeakDay(days) >> ELSE << >>]

\* the sentence one_liner builds, as the values interpolated into it
one_liner(range_from, range_to, total, by_source, top_keywords, days) ==
    IF total <= 0
    THEN [text |-> "no_data", from |-> range_from, to |-> range_to,
          top_kw |-> "", top_src |-> << >>, peak |-> << >>]
    ELSE [text |-> "summary", from |-> << >>, to |-> << >>,
          top_kw |-> IF top_keywords # << >> THEN top_keywords[1].tag ELSE "",
          top_src |-> IF by_source # << >> THEN << by_source[1] >> ELSE << >>,
          peak |-> IF days # << >> THEN << PeakDay(days) >> ELSE << >>]

SourceEntry(p) == [source |-> p[1], count |-> p[2]]
TagEntry(p) == [tag |-> p[1], count |-> p[2]]

\* the entry of top_articles for a record (the subtitle, which no
\* operation of the model reads, is left out)
TopArticleEntry(a) ==
    [date |-> a.date, source |-> a.source, title |-> a.title, url |-> a.url,
     tags |-> a.tags]

\* build_weekly_json(all_items) run on the day with ordinal end_ord
build_weekly_json(all_items, end_ord) ==
    LET range == compute_week_range(end_ord)
        week_items == filter_items_by_range(all_items, range[1], range[2])
        by_source == StableSort(
            MapSeq(Counter(SelectSeq(MapSeq(week_items, SourceOf), NonEmpty)),
                   SourceEntry),
            SourceEntryLess)
        top_keywords == Take(
            StableSort(MapSeq(Counter(Flatten(MapSeq(week_items, TagsOf))), TagEntry),
                       CountGreater),
            TOP_KEYWORDS_N)
        days == build_by_day(week_items, range[1], range[2])
    IN  [range |-> [from |-> range[1], to |-> range[2]],
         total |-> Len(week_items),
         by_source |-> by_source,
         top_keywords |-> top_keywords,
         by_day |-> days,
         top_articles |-> MapSeq(pick_top_articles(week_items, TOP_ARTICLES_N),
                                 TopArticleEntry),
         one_liner |-> one_liner(range[1], range[2], Len(week_items), by_source,
                                 top_keywords, days)]

\* make_weekly.load_all: as load_all_existing
load_all(f) ==
    IF f.kind \in {"missing", "corrupt"} THEN [type |-> "list", items |-> << >>]
    ELSE [type |-> f.kind, items |-> f.items]

(***************************************************************************)
(* State.                                                                  *)
(***************************************************************************)
VARIABLES
    all_json,       \* data/all.json
    by_date_files,  \* data/by_date/: date key -> content of <key>.json
    latest_json,    \* data/latest.json
    weekly_json,    \* data/weekly.json: << >> while missing, else <<weekly>>
    today,          \* the KST calendar day, as an ordinal
    runs,           \* job() runs so far
    op,             \* the last step: "none", "job", "weekly", "tick"
    outcome,        \* how the program ended: "none", "ok", "raised"
    new_items,      \* job(): the scraped batch
    existing,       \* job(): what load_all_existing returned
    merged,         \* job(): the merged, sorted collection
    by_date,        \* job(): the bucket write_by_date returned
    main_all_items  \* main(): all_items, what load_all returned

vars == << all_json, by_date_files, latest_json, weekly_json, today, runs, op, outcome,
           new_items, existing, merged, by_date, main_all_items >>

today_kst_str == Strftime(today)

Init ==
    /\ all_json \in
          { File("missing", << >>), File("corrupt", << >>), File("object", << >>) }
          \cup { File("list", s) : s \in StoredLists }
    /\ by_date_files = << >>
    /\ latest_json = File("missing", << >>)
    /\ weekly_json = << >>
    /\ today = StartDay
    /\ runs = 0
    /\ op = "none"
    /\ outcome = "none"
    /\ new_items = << >>
    /\ existing = [type |-> "list", items |-> << >>]
    /\ merged = << >>
    /\ by_date = << >>
    /\ main_all_items = [type |-> "list", items |-> << >>]

\* news_crawler.job() with `batch` the records the three crawls return.
\* A JSON value that is no list reaches `existing + new_items`, which
\* raises TypeError before anything is written; so does sort_articles on a
\* merged list that holds a null date next to a string date.
Job(batch) ==
    /\ runs < MaxRuns
    /\ runs' = runs + 1
    /\ op' = "job"
    /\ new_items' = batch
    /\ existing' = load_all_existing(all_json)
    /\ UNCHANGED << today, weekly_json, main_all_items >>
    /\ IF existing'.type # "list"
       THEN /\ outcome' = "raised"
            /\ merged' = << >>
            /\ by_date' = << >>
            /\ UNCHANGED << all_json, by_date_files, latest_json >>
       ELSE IF SortRaises(dedup_by_url(existing'.items \o batch))
       THEN /\ outcome' = "raised"
            /\ merged' = dedup_by_url(existing'.items \o batch)
            /\ by_date' = << >>
            /\ UNCHANGED << all_json, by_date_files, latest_json >>
       ELSE /\ outcome' = "ok"
            /\ merged' = sort_articles(dedup_by_url(existing'.items \o batch))
            /\ all_json' = File("list", merged')
            /\ by_date' = write_by_date(merged')
            /\ by_date_files' = ByDateFilesAfter(by_date_files, by_date')
            /\ latest_json' = File("list", LatestItems(by_date', today_kst_str))

\* the calendar day changes between two runs
Tick ==
    /\ today < StartDay + MaxTicks
    /\ today' = today + 1
    /\ op' = "tick"
    /\ outcome' = "none"
    /\ UNCHANGED << all_json, by_date_files, latest_json, weekly_json, runs,
                    new_items, existing, merged, by_date, main_all_items >>

\* mutant of Weekly: by_source is listed in the order a set of the sources
\* happens to be iterated in, which differs from run to run
WeeklyUnstableOrder ==
    /\ op' = "weekly"
    /\ main_all_items' = load_all(all_json)
    /\ IF main_all_items'.type # "list"
       THEN /\ outcome' = "raised"
            /\ UNCHANGED weekly_json
       ELSE /\ outcome' = "ok"
            /\ LET weekly == build_weekly_json(main_all_items'.items, today)
                   n == Len(weekly.by_source)
                   reversed == [ i \in 1..n |-> weekly.by_source[n + 1 - i] ]
               IN  weekly_json' \in { << weekly >>,
                                      << [weekly EXCEPT !.by_source = reversed] >> }
    /\ UNCHANGED << all_json, by_date_files, latest_json, today, runs,
                    new_items, existing, merged, by_date >>

\* make_weekly.main().  A JSON object read from all.json is iterated by
\* filter_items_by_range, whose a.get on a key raises AttributeError
\* before weekly.json is written.
Weekly ==
    /\ op' = "weekly"
    /\ main_all_items' = load_all(all_json)
    /\ IF main_all_items'.type # "list"
       THEN /\ outcome' = "raised"
            /\ UNCHANGED weekly_json
       ELSE /\ outcome' = "ok"
            /\ weekly_json' = << build_weekly_json(main_all_items'.items, today) >>
    /\ UNCHANGED << all_json, by_date_files, latest_json, today, runs,
                    new_items, existing, merged, by_date >>

Next ==
    \/ \E batch \in Batches : Job(batch)
    \/ Weekly
    \/ Tick

Spec == Init /\ [][Next]_vars

(***************************************************************************)
(* Properties.                                                             *)
(***************************************************************************)
JobDone == op = "job" /\ outcome = "ok"

\* the records of the store filed under date key d, in the store's order
StoreGroup(d) ==
    LET Under(r) == DateKey(r) = d
    IN  SelectSeq(all_json.items, Under)

StoreKeys == { DateKey(all_json.items[i]) : i \in 1..Len(all_json.items) }

\* C1 as stated: after a run of job(), latest.json holds the records of the
\* store under its largest date key, whatever the clock says.
C1_LatestIsMaxDateGroup ==
    JobDone =>
        latest_json.items =
            IF StoreKeys = {} THEN << >>
            ELSE sort_articles(StoreGroup(MaxKey(StoreKeys)))

\* C1 amended: after a run of job(), latest.json holds the records of the
\* store whose date is the current KST day (none: an empty array).
C1_LatestIsTodayGroup ==
    JobDone =>
        /\ latest_json.kind = "list"
        /\ latest_json.items = sort_articles(StoreGroup(today_kst_str))

\* C1 witness: a run that wrote today's records to latest.json while the
\* store holds a later date.
C1_Witness ==
    /\ JobDone
    /\ latest_json.items # << >>
    /\ \E k \in StoreKeys : StrLess(today_kst_str, k) /\ k # Unknown

\* the inputs of the merge a run made, existing first
MergeInput == existing.items \o new_items

UrlsOf(items) == { items[i].url : i \in 1..Len(items) } \ {""}

\* the merge of job(): sort_articles(dedup_by_url(a + b))
Merge(a, b) == sort_articles(dedup_by_url(a \o b))

\* C2 as stated: the merge outputs exactly one record per url of its inputs
\* and drops an input record only when a later record with the same url
\* overwrote it.
C2_OnlyCollisionsDrop ==
    JobDone =>
        /\ \A u \in UrlsOf(MergeInput) :
              Cardinality({ j \in 1..Len(merged) : merged[j].url = u }) = 1
        /\ \A i \in 1..Len(MergeInput) :
              \/ MergeInput[i] \in Range(merged)
              \/ \E j \in (i + 1)..Len(MergeInput) :
                    MergeInput[j].url = MergeInput[i].url

\* C2 amended: the merge outputs exactly one record per non-empty url of its
\* inputs; an input record with a non-empty url is in the output unless a
\* later record with the same url overwrote it; a record whose url is missing
\* or empty is dropped, and the output holds nothing else.
C2_OnePerUrlNoUrlDropped ==
    JobDone =>
        /\ \A u \in UrlsOf(MergeInput) :
              Cardinality({ j \in 1..Len(merged) : merged[j].url = u }) = 1
        /\ \A j \in 1..Len(merged) :
              merged[j].url # "" /\ merged[j] \in Range(MergeInput)
        /\ \A i \in 1..Len(MergeInput) :
              IF MergeInput[i].url = ""
              THEN MergeInput[i] \notin Range(merged)
              ELSE \/ MergeInput[i] \in Range(merged)
                   \/ \E j \in (i + 1)..Len(MergeInput) :
                         MergeInput[j].url = MergeInput[i].url

\* C2 witness: a merge that dropped a record without url and resolved a
\* collision.
C2_Witness ==
    /\ JobDone
    /\ \E i \in 1..Len(MergeInput) : MergeInput[i].url = ""
    /\ \E i, j \in 1..Len(MergeInput) :
          i < j /\ MergeInput[i].url = MergeInput[j].url
          /\ MergeInput[i] # MergeInput[j] /\ MergeInput[j] \in Range(merged)

\* C3: for every url of the inputs the merged store holds the record at the
\* last position of existing + incoming with that url: an incoming record
\* replaces the existing one, a later record replaces an earlier one.
C3_LastWriteWins ==
    JobDone =>
        \A i \in 1..Len(MergeInput) :
            (/\ MergeInput[i].url # ""
             /\ \A j \in (i + 1)..Len(MergeInput) :
                   MergeInput[j].url # MergeInput[i].url)
            => /\ MergeInput[i] \in Range(merged)
               /\ \A k \in 1..Len(merged) :
                     merged[k].url = MergeInput[i].url => merged[k] = MergeInput[i]

\* C3 witness: the store held a record under a url, the batch brought a
\* different record under it, and the merged store holds the batch's.
C3_Witness ==
    /\ JobDone
    /\ \E i \in 1..Len(existing.items), j \in 1..Len(new_items) :
          /\ existing.items[i].url = new_items[j].url
          /\ existing.items[i] # new_items[j]
          /\ new_items[j] \in Range(merged)
          /\ existing.items[i] \notin Range(merged)

\* C4: no step removes a url from all.json, and the record a url has after
\* the step is one the store held or one of the incoming batch.
C4_NeverPruned ==
    [][ /\ UrlsOf(all_json.items) \subseteq UrlsOf(all_json'.items)
        /\ \A k \in 1..Len(all_json'.items) :
              all_json'.items[k].url \in UrlsOf(all_json.items)
              => \/ all_json'.items[k] \in Range(all_json.items)
                 \/ all_json'.items[k] \in Range(new_items') ]_vars

\* C4 witness: a second run whose batch does not mention a stored url, which
\* the store still holds, next to a url the run added.
C4_Witness ==
    /\ JobDone
    /\ runs = 2
    /\ \E u \in UrlsOf(existing.items) :
          u \notin UrlsOf(new_items) /\ u \in UrlsOf(all_json.items)
    /\ \E u \in UrlsOf(all_json.items) : u \notin UrlsOf(existing.items)

\* C5 as stated: after a run every file by_date/<D>.json holds exactly the
\* records the store files under D.
C5_ByDateFilesMatchStore ==
    JobDone =>
        \A d \in DOMAIN by_date_files :
            by_date_files[d] = sort_articles(StoreGroup(d))

\* C6 as stated: every record of the merged collection is in exactly one
\* group of the bucket, the group keyed by its date field.
C6_GroupKeyIsDateField ==
    JobDone =>
        \A i \in 1..Len(merged) :
            { d \in DOMAIN by_date : merged[i] \in Range(by_date[d]) }
                = { merged[i].date }

\* C6 amended: every record of the merged collection is in exactly one group
\* of the bucket, once; the group's key is the record's date, or "unknown"
\* for a record whose date is missing, empty or null; the groups hold
\* nothing else.
C6_PartitionComplete ==
    JobDone =>
        /\ \A i \in 1..Len(merged) :
              LET key == IF merged[i].date \in { << >>, Null } THEN Unknown
                         ELSE merged[i].date
              IN  /\ { d \in DOMAIN by_date : merged[i] \in Range(by_date[d]) } = { key }
                  /\ Cardinality({ p \in 1..Len(by_date[key]) :
                                      by_date[key][p] = merged[i] }) = 1
        /\ \A d \in DOMAIN by_date : Range(by_date[d]) \subseteq Range(merged)

\* C6 witness: a partition with a group of two records and a record without
\* date.
C6_Witness ==
    /\ JobDone
    /\ \E d \in DOMAIN by_date : Len(by_date[d]) >= 2
    /\ \E i \in 1..Len(merged) : merged[i].date = << >>

\* C7: merging the batch of a run into the result of that run gives the
\* result again: merge(merge(A, B), B) = merge(A, B).
C7_MergeIdempotent ==
    JobDone => Merge(merged, new_items) = merged

\* C7 witness: a second run that left a store of several records, two of
\* them with equal sort keys, as it was.
C7_Witness ==
    /\ JobDone
    /\ runs = 2
    /\ new_items # << >>
    /\ existing.items = merged
    /\ \E i, j \in 1..Len(merged) :
          i # j /\ ~KeyLess(merged[i], merged[j]) /\ ~KeyLess(merged[j], merged[i])

NoSharedUrl == UrlsOf(existing.items) \cap UrlsOf(new_items) = {}

\* every record has a url, and no url occurs twice
CleanUrls(items) ==
    /\ \A i \in 1..Len(items) : items[i].url # ""
    /\ \A i, j \in 1..Len(items) : items[i].url = items[j].url => i = j

\* C8 as stated: when A and B share no url, merge(A, B) has |A| + |B|
\* records and merge(A, B) and merge(B, A) hold the same records.
C8_DisjointMergeCounts ==
    (JobDone /\ NoSharedUrl) =>
        /\ Len(merged) = Len(existing.items) + Len(new_items)
        /\ Range(merged) = Range(Merge(new_items, existing.items))

\* C8 amended: when A and B share no url, merge(A, B) and merge(B, A) hold
\* the same records; when moreover every record of A and of B has a
\* non-empty url that occurs once in its collection, merge(A, B) has
\* |A| + |B| records.
C8_DisjointMergeCleanCounts ==
    (JobDone /\ NoSharedUrl) =>
        /\ Range(merged) = Range(Merge(new_items, existing.items))
        /\ (CleanUrls(existing.items) /\ CleanUrls(new_items))
              => Len(merged) = Len(existing.items) + Len(new_items)

\* C8 witness: a merge of a non-empty store with a batch of two records that
\* shares no url with it.
C8_Witness ==
    /\ JobDone
    /\ NoSharedUrl
    /\ CleanUrls(existing.items) /\ CleanUrls(new_items)
    /\ existing.items # << >>
    /\ Len(new_items) = 2
    /\ Len(merged) = 3

\* C9 as stated: with an all.json that holds no JSON array, job() and
\* make_weekly.main() run to completion.
C9_BadFileNeverAborts ==
    (op \in {"job", "weekly"} /\ all_json.kind # "list") => outcome = "ok"

WeeklyDone == op = "weekly" /\ outcome = "ok"

\* the records of the store dated on the day with ordinal n
StoredOn(n) ==
    { i \in 1..Len(all_json.items) :
        parse_date_yyyy_mm_dd(all_json.items[i].date) = << n >> }

\* C10: by_day has one entry for each of the 7 days that end with the day of
\* the run, in ascending order, and the entry of a day without articles
\* counts 0.
C10_ByDayZeroFilled ==
    WeeklyDone =>
        LET days == weekly_json[1].by_day
        IN  /\ Len(days) = 7
            /\ \A i \in 1..7 :
                  /\ parse_date_yyyy_mm_dd(days[i].date) = << today - 7 + i >>
                  /\ Len(days[i].date) = 10
                  /\ StoredOn(today - 7 + i) = {} => days[i].count = 0
            /\ \A i \in 1..6 : StrLess(days[i].date, days[i + 1].date)

\* C10 witness: a rollup of a store with articles on the first and the last
\* day of the window only.
C10_Witness ==
    /\ WeeklyDone
    /\ StoredOn(today - 6) # {} /\ StoredOn(today) # {}
    /\ \A i \in 1..5 : StoredOn(today - 6 + i) = {}
    /\ weekly_json[1].by_day[1].count > 0
    /\ weekly_json[1].by_day[7].count > 0
    /\ \A i \in 2..6 : weekly_json[1].by_day[i].count = 0

\* the records of the store dated on one of the 7 days that end with today
StoredInWindow == UNION { StoredOn(today - 7 + k) : k \in 1..7 }

\* C11: a rollup run on a day covers the 7 days that end with that day, both
\* ends included: total is the number of stored records dated on one of
\* these days, and the articles listed are these records (fewer than
\* TOP_ARTICLES_N here) and no record dated outside.
C11_WindowInclusive ==
    WeeklyDone =>
        LET weekly == weekly_json[1]
        IN  /\ parse_date_yyyy_mm_dd(weekly.range.from) = << today - 6 >>
            /\ parse_date_yyyy_mm_dd(weekly.range.to) = << today >>
            /\ weekly.total = Cardinality(StoredInWindow)
            /\ Cardinality(StoredInWindow) <= TOP_ARTICLES_N =>
                  Range(weekly.top_articles) =
                      { TopArticleEntry(all_json.items[i]) : i \in StoredInWindow }

\* C11 witness: a rollup of a store with a record on the last day of the
\* window, one on the day before the window and one on the day after it;
\* only the first is counted.
C11_Witness ==
    /\ WeeklyDone
    /\ StoredOn(today) # {}
    /\ StoredOn(today - 7) # {}
    /\ StoredOn(today + 1) # {}
    /\ weekly_json[1].total = Cardinality(StoredOn(today))

\* a run of make_weekly.main() that reads the record collection the run
\* before it read, and writes weekly.json as that run did before
RerunOnSameRecords ==
    /\ weekly_json # << >>
    /\ op' = "weekly" /\ outcome' = "ok"
    /\ main_all_items' = main_all_items

C13_EmptyWindowNoData ==
    (op = "weekly" /\ all_json.kind # "object" /\ StoredInWindow = {}) =>
        /\ outcome = "ok"
        /\ LET weekly == weekly_json[1]
           IN  /\ weekly.total = 0
               /\ weekly.by_source = << >>
               /\ weekly.top_keywords = << >>
               /\ weekly.top_articles = << >>
               /\ weekly.one_liner.text = "no_data"
               /\ weekly.one_liner.from = Strftime(today - 6)
               /\ weekly.one_liner.to = Strftime(today)

\* C13 witness: a rollup of a store that holds records, none of them dated
\* in the window.
C13_Witness ==
    /\ WeeklyDone
    /\ all_json.items # << >>
    /\ StoredInWindow = {}
    /\ weekly_json[1].one_liner.text = "no_data"

\* C14 as stated: with an all.json that holds a list of records, some of
\* them malformed (no url, no date, no tags, a null date), job() and
\* make_weekly.main() run to completion.
C14_MalformedRecordNeverRaises ==
    (op \in {"job", "weekly"} /\ all_json.kind = "list") => outcome = "ok"

\* the sum of the counts of a by_day list
RECURSIVE SumOfCounts(_)
SumOfCounts(days) ==
    IF days = << >> THEN 0 ELSE days[1].count + SumOfCounts(Tail(days))

\* C15 as stated: the counts of by_day sum to total, whatever the date
\* strings of the records the filter admitted.
C15_ByDaySumsToTotal ==
    WeeklyDone => SumOfCounts(weekly_json[1].by_day) = weekly_json[1].total

====
